---- MODULE Spec2Model ----
(***************************************************************************)
(* Model of src/main.py: the /transcript endpoint of the YouTube           *)
(* transcript adapter.  A request is resolved to a video id                *)
(* (extract_video_id), an API client is built (get_api), the transcript is *)
(* fetched in the preferred language with a fallback to the first listed   *)
(* track, and the result or the failure is turned into an HTTP response.   *)
(*                                                                         *)
(* Python strings that the code inspects character by character (the       *)
(* video_id parameter, snippet texts) are sequences of one-character       *)
(* strings.  Strings that are only compared (language codes, messages) are *)
(* TLA+ strings.                                                           *)
(***************************************************************************)
EXTENDS Integers, Sequences, FiniteSets, TLC

\* ------------------------------------------------------------------------
\* Bounds of the model
\* ------------------------------------------------------------------------
\* number of (marker, token, separator) parts appended to a prefix when the
\* video_id inputs of the resolver are enumerated
MaxParts == 2
\* number of tracks a video's listing holds at most
MaxTracks == 2
\* number of snippets a fetched transcript holds at most
MaxSnippets == 2

\* ------------------------------------------------------------------------
\* Python values
\* ------------------------------------------------------------------------
\* Python's None (os.environ.get of an unset variable, an unset local)
None == "<None>"

\* truth value of an Optional[str]: None and "" are falsy
Truthy(x) == x # None /\ x # ""

\* str.strip() removes these from both ends
Whitespace == {" ", "\t", "\n"}

\* `sub in s` for strings
Contains(s, sub) ==
    \E i \in 0..(Len(s) - Len(sub)) : SubSeq(s, i + 1, i + Len(sub)) = sub

\* s[i:] starts with sub (i is 1-based)
StartsWithAt(s, i, sub) ==
    /\ i + Len(sub) - 1 <= Len(s)
    /\ SubSeq(s, i, i + Len(sub) - 1) = sub

RECURSIVE LStrip(_)
LStrip(s) ==
    IF s # <<>> /\ Head(s) \in Whitespace THEN LStrip(Tail(s)) ELSE s

RECURSIVE RStrip(_)
RStrip(s) ==
    IF s # <<>> /\ s[Len(s)] \in Whitespace
    THEN RStrip(SubSeq(s, 1, Len(s) - 1))
    ELSE s

\* str.strip()
Strip(s) == RStrip(LStrip(s))

\* ------------------------------------------------------------------------
\* extract_video_id
\* ------------------------------------------------------------------------
YOUTUBE_COM == <<"y", "o", "u", "t", "u", "b", "e", ".", "c", "o", "m">>
YOUTU_BE == <<"y", "o", "u", "t", "u", ".", "b", "e">>

\* the two alternatives of the non-capturing group (?:v=|youtu\.be/)
MARK_V == <<"v", "=">>
MARK_SHORT == <<"y", "o", "u", "t", "u", ".", "b", "e", "/">>
Markers == {MARK_V, MARK_SHORT}

\* the repetition count of the capturing group, {11}
IDLen == 11

\* the character class [a-zA-Z0-9_-]
IdChars ==
    {"a", "b", "c", "d", "e", "f", "g", "h", "i", "j", "k", "l", "m",
     "n", "o", "p", "q", "r", "s", "t", "u", "v", "w", "x", "y", "z",
     "A", "B", "C", "D", "E", "F", "G", "H", "I", "J", "K", "L", "M",
     "N", "O", "P", "Q", "R", "S", "T", "U", "V", "W", "X", "Y", "Z",
     "0", "1", "2", "3", "4", "5", "6", "7", "8", "9", "_", "-"}

\* the pattern matches with its first character at position i, using marker m
MatchesAt(s, i, m) ==
    /\ StartsWithAt(s, i, m)
    /\ i + Len(m) + IDLen - 1 <= Len(s)
    /\ \A k \in 0..(IDLen - 1) : s[i + Len(m) + k] \in IdChars

\* the whole match, group(0), in place of group(1)
Group0(s, i, m) == SubSeq(s, i, i + Len(m) + IDLen - 1)

\* group(1) of the match at position i with marker m
Group1(s, i, m) == SubSeq(s, i + Len(m), i + Len(m) + IDLen - 1)

\* positions at which the pattern matches
MatchPositions(s) == {i \in 1..Len(s) : \E m \in Markers : MatchesAt(s, i, m)}

\* the last match (re.findall(...)[-1]) in place of the first
ReSearch_Last(s) ==
    IF MatchPositions(s) = {} THEN [found |-> FALSE]
    ELSE LET i == CHOOSE p \in MatchPositions(s) :
                      \A q \in MatchPositions(s) : p >= q
             m == CHOOSE mm \in Markers : MatchesAt(s, i, mm)
         IN  [found |-> TRUE, start |-> i, group1 |-> Group1(s, i, m)]

\* re.search: the leftmost match, or no match (found = FALSE for None)
ReSearch(s) ==
    IF MatchPositions(s) = {} THEN [found |-> FALSE]
    ELSE LET i == CHOOSE p \in MatchPositions(s) :
                      \A q \in MatchPositions(s) : p <= q
             m == CHOOSE mm \in Markers : MatchesAt(s, i, mm)
         IN  [found |-> TRUE, start |-> i, group1 |-> Group1(s, i, m)]

MSG_NO_ID == "Could not extract video ID from the provided URL."

\* HTTPException(status_code, detail)
HTTPException(code, text) == [status |-> code, detail |-> text]

\* the `if` of line 52
LooksLikeUrl(s) == Contains(s, YOUTUBE_COM) \/ Contains(s, YOUTU_BE)

\* a resolver that falls through to the raw-id branch when nothing matches
extract_video_id_NoRaise(video_id_or_url) ==
    IF LooksLikeUrl(video_id_or_url) /\ ReSearch(video_id_or_url).found
    THEN [raised |-> FALSE, value |-> ReSearch(video_id_or_url).group1]
    ELSE [raised |-> FALSE, value |-> Strip(video_id_or_url)]

\* extract_video_id: either returns a string or raises an HTTPException
extract_video_id(video_id_or_url) ==
    IF LooksLikeUrl(video_id_or_url)
    THEN LET match == ReSearch(video_id_or_url)
         IN  IF match.found
             THEN [raised |-> FALSE, value |-> match.group1]
             ELSE [raised |-> TRUE, exc |-> HTTPException(400, MSG_NO_ID)]
    ELSE [raised |-> FALSE, value |-> Strip(video_id_or_url)]

\* ------------------------------------------------------------------------
\* get_api
\* ------------------------------------------------------------------------
\* WebshareProxyConfig(proxy_username, proxy_password, retries_when_blocked)
WebshareProxyConfig(u, p) ==
    [webshare |-> TRUE, proxy_username |-> u, proxy_password |-> p,
     retries_when_blocked |-> 20]

\* YouTubeTranscriptApi(proxy_config=...); without the argument the client
\* has no proxy configuration
YouTubeTranscriptApi(cfg) == [client |-> TRUE, proxy_config |-> cfg]
NoProxy == [webshare |-> FALSE]

\* the value of the local `api` before line 84 has run
NoApi == [client |-> FALSE, proxy_config |-> NoProxy]

\* `or` in place of `and`
ProxyEnabled_Either(u, p) == Truthy(u) \/ Truthy(p)

\* bool(WEBSHARE_USERNAME and WEBSHARE_PASSWORD)
ProxyEnabled(u, p) == Truthy(u) /\ Truthy(p)

get_api(u, p) ==
    IF ProxyEnabled(u, p)
    THEN YouTubeTranscriptApi(WebshareProxyConfig(u, p))
    ELSE YouTubeTranscriptApi(NoProxy)

\* ------------------------------------------------------------------------
\* Exceptions and their mapping to HTTP errors
\* ------------------------------------------------------------------------
\* the classes an exception of each kind is an instance of.  IpBlocked is a
\* subclass of RequestBlocked; YouTubeRequestFailed stands for the library
\* failures the handler does not name.
Mro(kind) ==
    CASE kind = "TranscriptsDisabled" -> {"TranscriptsDisabled", "Exception"}
      [] kind = "NoTranscriptFound" -> {"NoTranscriptFound", "Exception"}
      [] kind = "VideoUnavailable" -> {"VideoUnavailable", "Exception"}
      [] kind = "RequestBlocked" -> {"RequestBlocked", "Exception"}
      [] kind = "IpBlocked" -> {"IpBlocked", "RequestBlocked", "Exception"}
      [] kind = "YouTubeRequestFailed" -> {"YouTubeRequestFailed", "Exception"}
      [] kind = "StopIteration" -> {"StopIteration", "Exception"}

\* `except cls:` catches e
IsInstance(e, cls) == cls \in Mro(e.kind)

\* str(e) of an exception raised by the library
LibraryMessage(kind) ==
    CASE kind = "TranscriptsDisabled" -> "lib: subtitles are disabled for this video"
      [] kind = "NoTranscriptFound" -> "lib: no transcripts were found for the requested language codes"
      [] kind = "VideoUnavailable" -> "lib: the video is no longer available"
      [] kind = "RequestBlocked" -> "lib: YouTube is blocking requests from your IP"
      [] kind = "IpBlocked" -> "lib: YouTube is blocking your IP"
      [] kind = "YouTubeRequestFailed" -> "lib: request to YouTube failed"

LibraryError(kind) == [kind |-> kind, msg |-> LibraryMessage(kind)]

\* next() on an exhausted iterator; str(StopIteration()) is the empty string
StopIteration == [kind |-> "StopIteration", msg |-> ""]

MSG_DISABLED == "Transcripts are disabled for this video."
MSG_UNAVAILABLE == "Video is unavailable or does not exist."
MSG_BLOCKED == "YouTube has blocked this server's IP. Add WEBSHARE_USERNAME and WEBSHARE_PASSWORD env vars in Render to fix this."

\* a mapping whose TranscriptsDisabled clause passes str(e) on as the detail
MapError_Interpolated(e) ==
    IF IsInstance(e, "TranscriptsDisabled") THEN HTTPException(404, e.msg)
    ELSE IF IsInstance(e, "VideoUnavailable") THEN HTTPException(404, MSG_UNAVAILABLE)
    ELSE IF IsInstance(e, "RequestBlocked") \/ IsInstance(e, "IpBlocked")
         THEN HTTPException(429, MSG_BLOCKED)
    ELSE HTTPException(500, e.msg)

\* a mapping with one more clause: NoTranscriptFound and an empty listing
\* answered as 404
MapError_NotFound404(e) ==
    IF IsInstance(e, "TranscriptsDisabled") THEN HTTPException(404, MSG_DISABLED)
    ELSE IF IsInstance(e, "VideoUnavailable") THEN HTTPException(404, MSG_UNAVAILABLE)
    ELSE IF IsInstance(e, "RequestBlocked") \/ IsInstance(e, "IpBlocked")
         THEN HTTPException(429, MSG_BLOCKED)
    ELSE IF IsInstance(e, "NoTranscriptFound") \/ IsInstance(e, "StopIteration")
         THEN HTTPException(404, e.msg)
    ELSE HTTPException(500, e.msg)

\* the except clauses of the outer try, in order
MapError(e) ==
    IF IsInstance(e, "TranscriptsDisabled") THEN HTTPException(404, MSG_DISABLED)
    ELSE IF IsInstance(e, "VideoUnavailable") THEN HTTPException(404, MSG_UNAVAILABLE)
    ELSE IF IsInstance(e, "RequestBlocked") \/ IsInstance(e, "IpBlocked")
         THEN HTTPException(429, MSG_BLOCKED)
    ELSE HTTPException(500, e.msg)

\* an inner `except Exception:` in place of `except NoTranscriptFound:`
CaughtByInner_Any(e) == IsInstance(e, "Exception")

\* the except clause of the inner try
CaughtByInner(e) == IsInstance(e, "NoTranscriptFound")

\* ------------------------------------------------------------------------
\* The transcript library as the handler sees it
\* ------------------------------------------------------------------------
\* language codes of the tracks that exist, and of the requests
Codes == {"en", "de", "fr"}
Languages == {"en", "de"}

LanguageName(code) ==
    CASE code = "en" -> "English"
      [] code = "de" -> "German"
      [] code = "fr" -> "French"

\* a track handle of a listing (Transcript): language, language_code,
\* is_generated; here the German track is the auto-generated one
Track(code) ==
    [language |-> LanguageName(code), language_code |-> code,
     is_generated |-> (code = "de")]
TrackPool == {Track(c) : c \in Codes}

\* the listings a video can have (TranscriptList), in the order the library
\* yields the tracks
Videos == UNION {[1..n -> TrackPool] : n \in 0..MaxTracks}

\* snippet texts: plain, empty, and with inner and trailing blanks
TextHi == <<"H", "i">>
TextBlank == <<"a", " ", "b", " ">>

\* FetchedTranscriptSnippet(text, start, duration); times in 1/1000 s
SnippetPool ==
    {[text |-> TextHi, start |-> 0, duration |-> 1234],
     [text |-> <<>>, start |-> 1234, duration |-> 2718],
     [text |-> TextBlank, start |-> 61999, duration |-> 3]}
SnippetSeqs == UNION {[1..n -> SnippetPool] : n \in 0..MaxSnippets}

\* FetchedTranscript: the content of a track
FetchedTranscript(track, snips) ==
    [language |-> track.language, language_code |-> track.language_code,
     is_generated |-> track.is_generated, snippets |-> snips]

\* the value of the local `transcript` before it is assigned
NoTranscript == [language |-> None, language_code |-> None,
                 is_generated |-> FALSE, snippets |-> <<>>]

Returned(t) == [ok |-> TRUE, transcript |-> t]
Raised(e) == [ok |-> FALSE, exc |-> e]

\* failures every network call of the library can end with
NetworkFailures ==
    {"TranscriptsDisabled", "VideoUnavailable", "RequestBlocked", "IpBlocked",
     "YouTubeRequestFailed"}

\* indices of the tracks of a listing in language lang
TracksIn(listing, lang) ==
    {i \in 1..Len(listing) : listing[i].language_code = lang}

\* api.fetch(vid, languages=[lang]): the first track in that language, or
\* NoTranscriptFound when the video has none, or a failure of the call
FetchOutcomes(listing, lang) ==
    (IF TracksIn(listing, lang) # {}
     THEN LET i == CHOOSE j \in TracksIn(listing, lang) :
                       \A k \in TracksIn(listing, lang) : j <= k
          IN  {Returned(FetchedTranscript(listing[i], s)) : s \in SnippetSeqs}
     ELSE {Raised(LibraryError("NoTranscriptFound"))})
    \cup {Raised(LibraryError(k)) : k \in NetworkFailures}

\* api.list(vid): the listing, or a failure of the call
ListOutcomes(listing) ==
    {[ok |-> TRUE, transcript_list |-> listing]}
    \cup {Raised(LibraryError(k)) : k \in NetworkFailures}

\* track.fetch(): the content of that track, or a failure of the call
TrackFetchOutcomes(track) ==
    {Returned(FetchedTranscript(track, s)) : s \in SnippetSeqs}
    \cup {Raised(LibraryError(k)) : k \in NetworkFailures \cup {"NoTranscriptFound"}}

\* the last track of the listing in place of the first
LastTrack(listing) == listing[Len(listing)]

\* next(iter(transcript_list)) on a listing that is not empty
FirstTrack(listing) == Head(listing)

\* ------------------------------------------------------------------------
\* Response assembly (lines 92-107)
\* ------------------------------------------------------------------------
\* round(x, 2) on a time given in 1/1000 s; the result is again in 1/1000 s.
\* No time of SnippetPool lies halfway between two hundredths.
Round2(ms) == 10 * ((ms + 5) \div 10)

\* a join that ends every text, the last one too, with the separator
RECURSIVE Join_Trailing(_, _)
Join_Trailing(sep, xs) ==
    IF xs = <<>> THEN <<>> ELSE xs[1] \o sep \o Join_Trailing(sep, Tail(xs))

\* sep.join(xs)
RECURSIVE Join(_, _)
Join(sep, xs) ==
    IF xs = <<>> THEN <<>>
    ELSE IF Len(xs) = 1 THEN xs[1]
    ELSE xs[1] \o sep \o Join(sep, Tail(xs))

\* the snippets list of lines 92-95
SnippetDicts(transcript) ==
    [i \in 1..Len(transcript.snippets) |->
        [text |-> transcript.snippets[i].text,
         start |-> Round2(transcript.snippets[i].start),
         duration |-> Round2(transcript.snippets[i].duration)]]

\* full_text of line 96
FullText(transcript) ==
    Join(<<" ">>, [i \in 1..Len(transcript.snippets) |-> transcript.snippets[i].text])

\* the dict returned at lines 98-107, sent with status 200
SuccessResponse(v, transcript) ==
    [status |-> 200,
     body |-> [success |-> TRUE,
               video_id |-> v,
               language |-> transcript.language,
               language_code |-> transcript.language_code,
               is_generated |-> transcript.is_generated,
               total_snippets |-> Len(SnippetDicts(transcript)),
               transcript_text |-> FullText(transcript),
               snippets |-> SnippetDicts(transcript)]]

\* no response sent yet
NoResponse == [status |-> 0]

\* ------------------------------------------------------------------------
\* Inputs
\* ------------------------------------------------------------------------
WatchPrefix == <<"h", "t", "t", "p", "s", ":", "/", "/", "w", "w", "w", ".", "y", "o", "u", "t", "u", "b", "e", ".", "c", "o", "m", "/", "w", "a", "t", "c", "h", "?">>
ShortPrefix == <<"h", "t", "t", "p", "s", ":", "/", "/", "y", "o", "u", "t", "u", ".", "b", "e", "/">>
ID1 == <<"d", "Q", "w", "4", "w", "9", "W", "g", "X", "c", "Q">>
ID2 == <<"a", "_", "b", "-", "c", "_", "d", "-", "e", "_", "Z">>
ShortTok == <<"a", "b", "c", "1", "2", "3">>

\* values of the video_id parameter: a prefix, then up to MaxParts parts
\* (a marker or nothing, a token, a separator or nothing), then a tail
Prefixes == {<<>>, <<" ">>, WatchPrefix, ShortPrefix}
Parts ==
    {m \o tok \o sep : m \in {<<>>, MARK_V, MARK_SHORT},
                       tok \in {ID1, ID2, ShortTok},
                       sep \in {<<>>, <<"&">>}}
Tails == {<<>>, <<" ", "\t">>}

RECURSIVE Concat(_)
Concat(ss) == IF ss = <<>> THEN <<>> ELSE Head(ss) \o Concat(Tail(ss))

Inputs ==
    {p \o Concat(ps) \o tl :
        p \in Prefixes,
        ps \in UNION {[1..n -> Parts] : n \in 0..MaxParts},
        tl \in Tails}

\* the video_id values of the requests sent to the running service
HandlerInputs ==
    {ID1,
     <<" ">> \o ID2 \o <<" ", "\t">>,
     ShortTok,
     WatchPrefix \o MARK_V \o ID1,
     ShortPrefix \o ID2 \o <<"&">>,
     WatchPrefix \o MARK_V \o ShortTok,
     ShortPrefix}

\* values of the two environment variables
EnvValues == {None, "", "user"}

\* ------------------------------------------------------------------------
\* State
\* ------------------------------------------------------------------------
VARIABLES
    WEBSHARE_USERNAME,  \* module global, read once at import
    WEBSHARE_PASSWORD,  \* module global, read once at import
    pc,                 \* where the handler of the current request stands
    video_id,           \* query parameter video_id
    language,           \* query parameter language
    vid,                \* local vid
    api,                \* local api
    transcript_list,    \* local transcript_list
    transcript,         \* local transcript
    response,           \* the HTTP response of the request
    video,              \* the listing YouTube holds for the requested video
    calls               \* the calls made to the library during the request

vars == <<WEBSHARE_USERNAME, WEBSHARE_PASSWORD, pc, video_id, language, vid,
          api, transcript_list, transcript, response, video, calls>>

globals == <<WEBSHARE_USERNAME, WEBSHARE_PASSWORD>>

\* a call of the library as the outside sees it
Call(op, client, v, outcome) ==
    [op |-> op, api |-> client, video_id |-> v,
     outcome |-> IF outcome.ok THEN "ok" ELSE outcome.exc.kind]

\* the locals of a handler that has not started
FreshLocals ==
    /\ vid' = <<>>
    /\ api' = NoApi
    /\ transcript_list' = <<>>
    /\ transcript' = NoTranscript
    /\ response' = NoResponse
    /\ calls' = <<>>

Init ==
    /\ WEBSHARE_USERNAME \in EnvValues
    /\ WEBSHARE_PASSWORD \in EnvValues
    /\ pc = "idle"
    /\ video_id = <<>>
    /\ language = "en"
    /\ vid = <<>>
    /\ api = NoApi
    /\ transcript_list = <<>>
    /\ transcript = NoTranscript
    /\ response = NoResponse
    /\ video = <<>>
    /\ calls = <<>>

\* GET /transcript?video_id=v[&language=l] arrives (lines 71-75); the
\* language defaults to "en"
Receive ==
    /\ pc = "idle"
    /\ \E v \in HandlerInputs, l \in Languages \cup {None}, w \in Videos :
        /\ video_id' = v
        /\ language' = IF l = None THEN "en" ELSE l
        /\ video' = w
    /\ FreshLocals
    /\ pc' = "resolve"
    /\ UNCHANGED globals

\* lines 81 and 84: resolve the id outside the try, then build the client
Resolve ==
    /\ pc = "resolve"
    /\ LET r == extract_video_id(video_id)
       IN  IF r.raised
           THEN /\ response' = r.exc
                /\ pc' = "done"
                /\ UNCHANGED <<vid, api>>
           ELSE /\ vid' = r.value
                /\ api' = get_api(WEBSHARE_USERNAME, WEBSHARE_PASSWORD)
                /\ pc' = "fetch"
                /\ UNCHANGED response
    /\ UNCHANGED <<globals, video_id, language, transcript_list, transcript,
                   video, calls>>

\* a handler whose fallback is not confined to the except clause: the
\* listing is asked for after a successful fetch too
FetchPreferred_FallbackAlways ==
    /\ pc = "fetch"
    /\ \E out \in FetchOutcomes(video, language) :
        /\ calls' = Append(calls, Call("fetch", api, vid, out))
        /\ IF out.ok
           THEN /\ transcript' = out.transcript
                /\ pc' = "list"
                /\ UNCHANGED response
           ELSE IF CaughtByInner(out.exc)
           THEN /\ pc' = "list"
                /\ UNCHANGED <<transcript, response>>
           ELSE /\ response' = MapError(out.exc)
                /\ pc' = "done"
                /\ UNCHANGED transcript
    /\ UNCHANGED <<globals, video_id, language, vid, api, transcript_list, video>>

\* line 87, and what follows it without a further call: the response on
\* success (lines 92-107), the inner except (line 88), the outer excepts
\* (lines 109-119)
FetchPreferred ==
    /\ pc = "fetch"
    /\ \E out \in FetchOutcomes(video, language) :
        /\ calls' = Append(calls, Call("fetch", api, vid, out))
        /\ IF out.ok
           THEN /\ transcript' = out.transcript
                /\ response' = SuccessResponse(vid, out.transcript)
                /\ pc' = "done"
           ELSE IF CaughtByInner(out.exc)
           THEN /\ pc' = "list"
                /\ UNCHANGED <<transcript, response>>
           ELSE /\ response' = MapError(out.exc)
                /\ pc' = "done"
                /\ UNCHANGED transcript
    /\ UNCHANGED <<globals, video_id, language, vid, api, transcript_list, video>>

\* line 89, inside the except handler of the inner try
ListTranscripts ==
    /\ pc = "list"
    /\ \E out \in ListOutcomes(video) :
        /\ calls' = Append(calls, Call("list", api, vid, out))
        /\ IF out.ok
           THEN /\ transcript_list' = out.transcript_list
                /\ pc' = "first"
                /\ UNCHANGED response
           ELSE /\ response' = MapError(out.exc)
                /\ pc' = "done"
                /\ UNCHANGED transcript_list
    /\ UNCHANGED <<globals, video_id, language, vid, api, transcript, video>>

\* line 90: next(iter(transcript_list)).fetch(), then lines 92-107 or the
\* outer excepts
FetchFirstListed ==
    /\ pc = "first"
    /\ IF transcript_list = <<>>
       THEN /\ response' = MapError(StopIteration)
            /\ pc' = "done"
            /\ UNCHANGED <<transcript, calls>>
       ELSE \E out \in TrackFetchOutcomes(FirstTrack(transcript_list)) :
            /\ calls' = Append(calls, Call("track_fetch", api, vid, out))
            /\ pc' = "done"
            /\ IF out.ok
               THEN /\ transcript' = out.transcript
                    /\ response' = SuccessResponse(vid, out.transcript)
               ELSE /\ response' = MapError(out.exc)
                    /\ UNCHANGED transcript
    /\ UNCHANGED <<globals, video_id, language, vid, api, transcript_list, video>>

\* the response has been sent: the handler returns and its locals are gone
Respond ==
    /\ pc = "done"
    /\ pc' = "idle"
    /\ video_id' = <<>>
    /\ language' = "en"
    /\ video' = <<>>
    /\ FreshLocals
    /\ UNCHANGED globals

Next ==
    \/ Receive
    \/ Resolve
    \/ FetchPreferred
    \/ ListTranscripts
    \/ FetchFirstListed
    \/ Respond

Spec == Init /\ [][Next]_vars

\* the resolver alone, on every input of Inputs: the handler is started on
\* the input and runs up to the first call of the library
InitResolver ==
    /\ WEBSHARE_USERNAME = None
    /\ WEBSHARE_PASSWORD = None
    /\ pc = "resolve"
    /\ video_id \in Inputs
    /\ language = "en"
    /\ vid = <<>>
    /\ api = NoApi
    /\ transcript_list = <<>>
    /\ transcript = NoTranscript
    /\ response = NoResponse
    /\ video = <<>>
    /\ calls = <<>>

SpecResolver == InitResolver /\ [][Resolve]_vars

\* ------------------------------------------------------------------------
\* Properties
\* ------------------------------------------------------------------------
\* the request has made at least n calls of the library
Made(n) == Len(calls) >= n

\* the statuses of the error responses of the endpoint's try block
ErrorStatuses == {404, 429, 500}

\* C1: when the preferred-language fetch of a request succeeds, the request
\* ends at once with a 200 success document whose language_code is the
\* requested language, and the log of the request holds no listing call.
C1_PreferredFetchNoListing ==
    (Made(1) /\ calls[1].op = "fetch" /\ calls[1].outcome = "ok") =>
        /\ pc = "done"
        /\ response.status = 200
        /\ response.body.success = TRUE
        /\ response.body.language_code = language
        /\ \A i \in 1..Len(calls) : calls[i].op # "list"

C1_Witness ==
    /\ pc = "done"
    /\ Made(1) /\ calls[1].outcome = "ok"
    /\ language = "de"
    /\ Len(video) = 2 /\ video[1].language_code = "fr"
    /\ response.status = 200

\* C2, as stated: whenever the video has no transcript in the requested
\* language (the preferred fetch reported NoTranscriptFound) but has a
\* track, the finished request is a 200 success built from the first listed
\* track, with a language_code other than the requested one.
C2_AsStated ==
    (pc = "done" /\ Made(1) /\ calls[1].outcome = "NoTranscriptFound"
        /\ video # <<>> /\ TracksIn(video, language) = {}) =>
        /\ response.status = 200
        /\ response.body.success = TRUE
        /\ response.body.language_code = video[1].language_code
        /\ response.body.language_code # language

\* C2, amended: in such a request, if the fallback listing and the fetch of
\* the first listed track both succeed, the response is a 200 success built
\* from the first listed track (its language, language_code and
\* is_generated) and its language_code differs from the requested one; if
\* either of the two calls fails the request ends with an error response.
C2_FallbackFirstTrack ==
    (pc = "done" /\ Made(1) /\ calls[1].outcome = "NoTranscriptFound"
        /\ video # <<>> /\ TracksIn(video, language) = {}) =>
        IF Made(3) /\ calls[2].outcome = "ok" /\ calls[3].outcome = "ok"
        THEN /\ response.status = 200
             /\ response.body.success = TRUE
             /\ response.body.language = video[1].language
             /\ response.body.language_code = video[1].language_code
             /\ response.body.is_generated = video[1].is_generated
             /\ response.body.language_code # language
        ELSE /\ response.status \in ErrorStatuses
             /\ calls[Len(calls)].outcome # "ok"

C2_Witness ==
    /\ pc = "done"
    /\ Made(3) /\ calls[3].op = "track_fetch" /\ calls[3].outcome = "ok"
    /\ Len(video) = 2 /\ video[1] # video[2]
    /\ response.status = 200
    /\ response.body.language_code # language

\* C3: a request that ends because a call raised TranscriptsDisabled,
\* VideoUnavailable, RequestBlocked or IpBlocked answers with the one status
\* and the one fixed message of that kind, whichever of the three calls it
\* was, and the detail is never the library's message.
C3_FixedErrorMapping ==
    (Made(1) /\ calls[Len(calls)].outcome \in
        {"TranscriptsDisabled", "VideoUnavailable", "RequestBlocked", "IpBlocked"}) =>
        LET k == calls[Len(calls)].outcome
        IN  /\ pc = "done"
            /\ k = "TranscriptsDisabled" =>
                 /\ response.status = 404
                 /\ response.detail = "Transcripts are disabled for this video."
            /\ k = "VideoUnavailable" =>
                 /\ response.status = 404
                 /\ response.detail = "Video is unavailable or does not exist."
            /\ k \in {"RequestBlocked", "IpBlocked"} =>
                 /\ response.status = 429
                 /\ response.detail = "YouTube has blocked this server's IP. Add WEBSHARE_USERNAME and WEBSHARE_PASSWORD env vars in Render to fix this."
            /\ response.detail # LibraryMessage(k)

C3_Witness ==
    /\ pc = "done"
    /\ Made(3) /\ calls[3].op = "track_fetch"
    /\ calls[3].outcome = "TranscriptsDisabled"
    /\ response.status = 404

\* alphanumerics, '-' and '_'
TokenChars ==
    {"a", "b", "c", "d", "e", "f", "g", "h", "i", "j", "k", "l", "m",
     "n", "o", "p", "q", "r", "s", "t", "u", "v", "w", "x", "y", "z"}
    \cup {"A", "B", "C", "D", "E", "F", "G", "H", "I", "J", "K", "L", "M",
          "N", "O", "P", "Q", "R", "S", "T", "U", "V", "W", "X", "Y", "Z"}
    \cup {"0", "1", "2", "3", "4", "5", "6", "7", "8", "9"}
    \cup {"-", "_"}

\* s is an 11-character token over TokenChars
IsIdToken(s) == Len(s) = 11 /\ \A k \in 1..11 : s[k] \in TokenChars

\* sub occurs in s with its first character at position i
OccursAt(s, i, sub) ==
    /\ i + Len(sub) - 1 <= Len(s)
    /\ \A k \in 1..Len(sub) : s[i + k - 1] = sub[k]

\* s contains youtube.com or youtu.be
UrlLike(s) ==
    \E i \in 1..Len(s) : OccursAt(s, i, YOUTUBE_COM) \/ OccursAt(s, i, YOUTU_BE)

\* the 11 characters after the marker m that occurs at position i
IdAfter(s, i, m) == [k \in 1..11 |-> s[i + Len(m) + k - 1]]

\* "v=" or "youtu.be/" occurs at position i of s and 11 token characters
\* follow it immediately
IdFollowsAt(s, i, m) ==
    /\ m \in {MARK_V, MARK_SHORT}
    /\ OccursAt(s, i, m)
    /\ i + Len(m) + 10 <= Len(s)
    /\ IsIdToken(IdAfter(s, i, m))

\* the places of s where an id follows a marker
IdPlaces(s) ==
    {x \in (1..Len(s)) \X {MARK_V, MARK_SHORT} : IdFollowsAt(s, x[1], x[2])}

\* C4: a request whose video_id contains youtube.com or youtu.be, with no
\* place where 11 token characters follow "v=" or "youtu.be/", ends with
\* status 400 and the fixed detail, without any call of the library.
C4_UrlWithoutIdIs400 ==
    (pc # "resolve" /\ UrlLike(video_id) /\ IdPlaces(video_id) = {}) =>
        /\ pc = "done"
        /\ response.status = 400
        /\ response.detail = "Could not extract video ID from the provided URL."
        /\ calls = <<>>

C4_Witness ==
    /\ pc = "done"
    /\ response.status = 400
    /\ \E i \in 1..Len(video_id) : OccursAt(video_id, i, MARK_V \o ShortTok \o <<"&">>)
    /\ \E i \in 1..Len(video_id) : OccursAt(video_id, i, YOUTUBE_COM)

\* C5, as stated: for a URL-like video_id, the resolved id is the 11
\* characters that follow "v=" or "youtu.be/", at every place where an id
\* follows one of them.
C5_AsStated ==
    (pc # "resolve" /\ UrlLike(video_id)) =>
        \A x \in IdPlaces(video_id) :
            pc = "fetch" /\ vid = IdAfter(video_id, x[1], x[2])

\* C5, amended: for a URL-like video_id with at least one place where an id
\* follows "v=" or "youtu.be/", the resolved id is the 11 characters at the
\* leftmost such place (the first 11 when more token characters follow).
C5_LeftmostId ==
    (pc # "resolve" /\ UrlLike(video_id) /\ IdPlaces(video_id) # {}) =>
        /\ pc = "fetch"
        /\ \E x \in IdPlaces(video_id) :
            /\ \A y \in IdPlaces(video_id) : x[1] <= y[1]
            /\ vid = IdAfter(video_id, x[1], x[2])

C5_Witness ==
    /\ pc = "fetch"
    /\ UrlLike(video_id)
    /\ \E x, y \in IdPlaces(video_id) :
        /\ x[1] < y[1]
        /\ IdAfter(video_id, x[1], x[2]) # IdAfter(video_id, y[1], y[2])
        /\ vid = IdAfter(video_id, x[1], x[2])

\* vid is video_id without its leading and trailing whitespace
IsTrimmed(v, s) ==
    \E a, b \in 0..Len(s) :
        /\ a + b <= Len(s)
        /\ v = [k \in 1..(Len(s) - a - b) |-> s[a + k]]
        /\ \A k \in 1..a : s[k] \in {" ", "\t", "\n"}
        /\ \A k \in (Len(s) - b + 1)..Len(s) : s[k] \in {" ", "\t", "\n"}
        /\ v # <<>> => v[1] \notin {" ", "\t", "\n"} /\ v[Len(v)] \notin {" ", "\t", "\n"}

\* C6, as stated: the id handed to the fetcher is always an 11-character
\* token.
C6_AsStated == pc = "fetch" => IsIdToken(vid)

\* C6, amended: the id handed to the fetcher is an 11-character token when
\* the video_id is URL-like; otherwise it is the video_id with its leading
\* and trailing whitespace removed, of any length and characters.
C6_ResolvedIdShape ==
    pc = "fetch" =>
        IF UrlLike(video_id) THEN IsIdToken(vid) ELSE IsTrimmed(vid, video_id)

C6_Witness ==
    /\ pc = "fetch"
    /\ UrlLike(video_id)
    /\ IsIdToken(vid)
    /\ \E i \in 1..Len(video_id) : OccursAt(video_id, i, MARK_SHORT \o ID2 \o ShortTok)
    /\ vid = ID2

\* where the text of snippet i starts in the joined text: after the texts
\* before it and one blank for each of them
RECURSIVE TextOffset(_, _)
TextOffset(sn, i) ==
    IF i = 1 THEN 0 ELSE TextOffset(sn, i - 1) + Len(sn[i - 1].text) + 1

\* C7: in a success response, total_snippets is the length of snippets, the
\* snippets carry the texts of the fetched transcript in its order, and
\* transcript_text is made of exactly these texts in order with one blank
\* between neighbours and nothing else.
C7_TranscriptTextIsJoin ==
    response.status = 200 =>
        LET b == response.body
            sn == b.snippets
            txt == b.transcript_text
            n == Len(sn)
        IN  /\ b.total_snippets = n
            /\ n = Len(transcript.snippets)
            /\ \A i \in 1..n : sn[i].text = transcript.snippets[i].text
            /\ Len(txt) = IF n = 0 THEN 0 ELSE TextOffset(sn, n) + Len(sn[n].text)
            /\ \A i \in 1..n :
                /\ \A k \in 1..Len(sn[i].text) :
                       txt[TextOffset(sn, i) + k] = sn[i].text[k]
                /\ i < n => txt[TextOffset(sn, i) + Len(sn[i].text) + 1] = " "

C7_Witness ==
    /\ pc = "done"
    /\ response.status = 200
    /\ response.body.total_snippets = 2
    /\ response.body.snippets[1].text = <<>>
    /\ response.body.snippets[2].text = TextBlank
    /\ Len(response.body.transcript_text) = 5

\* a call that failed, other than the preferred fetch finding no transcript
\* in the requested language
HardFailure(i) ==
    /\ calls[i].outcome # "ok"
    /\ ~(i = 1 /\ calls[i].outcome = "NoTranscriptFound")

\* C8: the calls of a request are at most a preferred fetch, then a
\* listing, then a track fetch, one of each; the listing is made only after
\* the preferred fetch reported NoTranscriptFound and the track fetch only
\* after the listing succeeded; a failed call other than that
\* NoTranscriptFound is the last call of the request, which has then ended
\* with an error response.
C8_SingleFallbackNoRetry ==
    /\ Len(calls) <= 3
    /\ \A i \in 1..Len(calls) :
        calls[i].op = (CASE i = 1 -> "fetch" [] i = 2 -> "list" [] i = 3 -> "track_fetch")
    /\ Made(2) => calls[1].outcome = "NoTranscriptFound"
    /\ Made(3) => calls[2].outcome = "ok"
    /\ \A i \in 1..Len(calls) :
        HardFailure(i) =>
            /\ i = Len(calls)
            /\ pc = "done"
            /\ response.status \in ErrorStatuses

C8_Witness ==
    /\ pc = "done"
    /\ Len(calls) = 2
    /\ calls[2].op = "list"
    /\ calls[2].outcome = "RequestBlocked"
    /\ response.status = 429

\* both environment variables are set to a non-empty value
CredentialsPresent ==
    /\ WEBSHARE_USERNAME \notin {None, ""}
    /\ WEBSHARE_PASSWORD \notin {None, ""}

\* the call went through the proxy, with the process-wide credentials
Proxied(c) ==
    /\ c.api.proxy_config.webshare
    /\ c.api.proxy_config.proxy_username = WEBSHARE_USERNAME
    /\ c.api.proxy_config.proxy_password = WEBSHARE_PASSWORD

\* C9: in every state, all calls of the request so far went through the
\* proxy-configured client if both credentials are present and went direct
\* otherwise; and no step changes the credentials.
C9_ProxyForEveryCall ==
    /\ [](\A i \in 1..Len(calls) :
            IF CredentialsPresent
            THEN Proxied(calls[i])
            ELSE ~calls[i].api.proxy_config.webshare)
    /\ [][/\ WEBSHARE_USERNAME' = WEBSHARE_USERNAME
          /\ WEBSHARE_PASSWORD' = WEBSHARE_PASSWORD]_vars

C9_Witness ==
    /\ CredentialsPresent
    /\ Len(calls) = 3
    /\ calls[2].op = "list"
    /\ \A i \in 1..3 : Proxied(calls[i])

\* C10: a request whose preferred fetch reported NoTranscriptFound and
\* whose fallback got no track (the listing came back empty, or the track
\* fetch reported NoTranscriptFound) ends with status 500 and the failure's
\* own text as detail: the empty text of StopIteration, or the library's
\* message of NoTranscriptFound.
C10_FallbackWithoutTrackIs500 ==
    (pc = "done" /\ Made(2) /\ calls[1].outcome = "NoTranscriptFound"
        /\ calls[2].outcome = "ok") =>
        /\ (Len(calls) = 2 /\ transcript_list = <<>>) =>
              response.status = 500 /\ response.detail = ""
        /\ (Made(3) /\ calls[3].outcome = "NoTranscriptFound") =>
              /\ response.status = 500
              /\ response.detail = "lib: no transcripts were found for the requested language codes"

C10_Witness ==
    /\ pc = "done"
    /\ Len(calls) = 2
    /\ calls[2].op = "list" /\ calls[2].outcome = "ok"
    /\ transcript_list = <<>>
    /\ response.status = 500

====
